---- MODULE Spec2Model ----
(***************************************************************************)
(* Model of mcda_analysis.py: the Weighted Sum Model scorer                *)
(* (calculate_weighted_score) and the ranker (evaluate_tools).             *)
(*                                                                         *)
(* Numbers.  Ratings and scores are carried as integers in hundredths      *)
(* (5.00 is 500), weights in hundredths (0.20 is 20), and the running      *)
(* total of the scorer in units of 1/10000, so that round(total, 2) is a   *)
(* real rounding step.  The total is a binary double: off a decimal tie    *)
(* x.xx5 it rounds as the decimal total does, and on a tie the double that *)
(* the additions leave, a little under or over x.xx5 or exactly on it,     *)
(* decides; the model computes that double exactly.                        *)
(***************************************************************************)
EXTENDS Integers, Sequences, FiniteSets, TLC

VARIABLES
    CRITERIA_WEIGHTS,   \* the module global, a dict in insertion order
    tool_scores,        \* the dict a caller passes to calculate_weighted_score
    score,              \* the outcome of that call, NotCalled before it
    dataframe,          \* the DataFrame object the caller holds
    history,            \* the evaluate_tools calls so far: argument and outcome
    total_score         \* the scorer's local, as its last call left it

vars == <<CRITERIA_WEIGHTS, tool_scores, score, dataframe, history, total_score>>

----------------------------------------------------------------------------
(* Python values *)

Float(v) == [type |-> "float", val |-> v]     \* v in hundredths
PyInt(n)   == [type |-> "int", val |-> n]
NaN      == [type |-> "nan"]
Str(s)   == [type |-> "str", str |-> s]

IsNumber(x) == x.type \in {"int", "float", "nan"}

(* A call either returns a value or raises *)
Return(v) == [raised |-> "None", value |-> v]
Raise(e)  == [raised |-> e]
NotCalled == [raised |-> "NotCalled"]

(* A local name before its function has run *)
Unbound == [type |-> "unbound"]

----------------------------------------------------------------------------
(* CRITERIA_WEIGHTS, as the sequence of its items() *)

(* Mutant: weights that do not sum to 1.0 *)
ReferenceWeightsUnnormalised ==
    << [criterion |-> "ease_of_use",           weight |-> 25],
       [criterion |-> "integration_readiness", weight |-> 20],
       [criterion |-> "cost_efficiency",       weight |-> 15],
       [criterion |-> "scalability",           weight |-> 15],
       [criterion |-> "paperwork_automation",  weight |-> 15],
       [criterion |-> "real_time_visibility",  weight |-> 15] >>

ReferenceWeights ==
    << [criterion |-> "ease_of_use",           weight |-> 20],
       [criterion |-> "integration_readiness", weight |-> 20],
       [criterion |-> "cost_efficiency",       weight |-> 15],
       [criterion |-> "scalability",           weight |-> 15],
       [criterion |-> "paperwork_automation",  weight |-> 15],
       [criterion |-> "real_time_visibility",  weight |-> 15] >>

Keys(weights) == {weights[i].criterion : i \in 1..Len(weights)}

WeightOf(weights, c) ==
    weights[CHOOSE i \in 1..Len(weights) : weights[i].criterion = c].weight

----------------------------------------------------------------------------
(* calculate_weighted_score *)

ndigits == 2

RECURSIVE Pow10(_)
Pow10(n) == IF n = 0 THEN 1 ELSE 10 * Pow10(n - 1)

----------------------------------------------------------------------------
(* Binary floating point.  A double is a sign, a significand m of           *)
(* SignificandBits bits and an exponent e, of value m * 2^e (m = <<>> is    *)
(* 0.0); every operation rounds its exact result to nearest, a tie to even. *)
(* Subnormals, infinities and overflow are out of the range of ratings.     *)

SignificandBits == 53

(* Naturals beyond the machine word: sequences of limbs of LimbBits bits,   *)
(* the low limb first, no high zero limb                                    *)
LimbBits == 15

Limb == 2 ^ LimbBits

Abs(n) == IF n < 0 THEN -n ELSE n

RECURSIVE BitsOf(_)
BitsOf(n) == IF n = 0 THEN <<>> ELSE <<n % Limb>> \o BitsOf(n \div Limb)

RECURSIVE ToInt(_)
ToInt(a) == IF a = <<>> THEN 0 ELSE a[1] + Limb * ToInt(Tail(a))

RECURSIVE Trim(_)
Trim(a) ==
    IF a = <<>> \/ a[Len(a)] # 0 THEN a ELSE Trim(SubSeq(a, 1, Len(a) - 1))

LimbAt(a, i) == IF i >= 1 /\ i <= Len(a) THEN a[i] ELSE 0

(* Bit k of a, the lowest being bit 1 *)
Bit(a, k) ==
    IF k < 1 THEN 0
    ELSE (LimbAt(a, ((k - 1) \div LimbBits) + 1)
          \div (2 ^ ((k - 1) % LimbBits))) % 2

(* The number of bits of a *)
BitLen(a) ==
    IF a = <<>> THEN 0
    ELSE (Len(a) - 1) * LimbBits
         + CHOOSE w \in 1..LimbBits :
               2 ^ (w - 1) <= a[Len(a)] /\ a[Len(a)] < 2 ^ w

(* a + b from limb i on, t being the sum of the limbs i and the carry *)
RECURSIVE AddFrom(_, _, _, _)
AddFrom(a, b, i, t) ==
    IF i > Len(a) /\ i > Len(b)
    THEN IF t = 0 THEN <<>> ELSE <<t>>
    ELSE <<t % Limb>>
         \o AddFrom(a, b, i + 1, LimbAt(a, i + 1) + LimbAt(b, i + 1) + t \div Limb)

BAdd(a, b) == AddFrom(a, b, 1, LimbAt(a, 1) + LimbAt(b, 1))

(* a - b for a >= b *)
(* t is the difference of the limbs i less the borrow *)
RECURSIVE SubFrom(_, _, _, _)
SubFrom(a, b, i, t) ==
    IF i > Len(a)
    THEN <<>>
    ELSE <<t % Limb>>
         \o SubFrom(a, b, i + 1,
                    LimbAt(a, i + 1) - LimbAt(b, i + 1) - (IF t < 0 THEN 1 ELSE 0))

BSub(a, b) == Trim(SubFrom(a, b, 1, LimbAt(a, 1) - LimbAt(b, 1)))

(* a < b, from limb i down, for a and b of the same length *)
RECURSIVE LessFrom(_, _, _)
LessFrom(a, b, i) ==
    IF i = 0 THEN FALSE
    ELSE IF a[i] # b[i] THEN a[i] < b[i]
    ELSE LessFrom(a, b, i - 1)

BLess(a, b) ==
    IF Len(a) # Len(b) THEN Len(a) < Len(b) ELSE LessFrom(a, b, Len(a))

(* a * 2^k *)
BShl(a, k) ==
    LET q == k \div LimbBits
        s == k % LimbBits
    IN  Trim([i \in 1..(Len(a) + q + 1) |->
                 ((LimbAt(a, i - q) * (2 ^ s)) % Limb)
                 + (LimbAt(a, i - q - 1) \div (2 ^ (LimbBits - s)))])

(* floor(a / 2^k) *)
BShr(a, k) ==
    LET q == k \div LimbBits
        s == k % LimbBits
    IN  Trim([i \in 1..(Len(a) - q) |->
                 (LimbAt(a, i + q) \div (2 ^ s))
                 + (LimbAt(a, i + q + 1) % (2 ^ s)) * (2 ^ (LimbBits - s))])

(* a * x for one limb x, from limb i on *)
RECURSIVE ScaleFrom(_, _, _, _)
ScaleFrom(a, x, i, carry) ==
    IF i > Len(a)
    THEN IF carry = 0 THEN <<>> ELSE <<carry>>
    ELSE <<(a[i] * x + carry) % Limb>>
         \o ScaleFrom(a, x, i + 1, (a[i] * x + carry) \div Limb)

(* a * b: the sum of a times every limb of b, from limb i on *)
RECURSIVE MulFrom(_, _, _)
MulFrom(a, b, i) ==
    IF i > Len(b)
    THEN <<>>
    ELSE BAdd([j \in 1..(i - 1) |-> 0] \o ScaleFrom(a, b[i], 1, 0),
              MulFrom(a, b, i + 1))

BMul(a, b) == Trim(MulFrom(a, b, 1))

(* floor(a / d) and whether a remainder is left, for a small d: long        *)
(* division from the high limb i down, with the remainder rem and the       *)
(* quotient q so far                                                        *)
RECURSIVE DivFrom(_, _, _, _, _)
DivFrom(a, d, i, rem, q) ==
    IF i = 0
    THEN [q |-> Trim(q), inexact |-> rem # 0]
    ELSE DivFrom(a, d, i - 1, (rem * Limb + a[i]) % d,
                 <<(rem * Limb + a[i]) \div d>> \o q)

BDiv(a, d) == DivFrom(a, d, Len(a), 0, <<>>)

(* kept, the bits of a number above a cut, rounded to nearest: up when the  *)
(* part cut off is above half, or is half and kept is odd                   *)
RoundKept(kept, half, below) ==
    IF half /\ (below \/ Bit(kept, 1) = 1) THEN BAdd(kept, <<1>>) ELSE kept

(* n cut to its bits above the low k, rounded to nearest, a tie to even;    *)
(* sticky says that n itself lost a non-zero part below its lowest bit      *)
RoundShift(n, k, sticky) ==
    IF k <= 0
    THEN n
    ELSE RoundKept(BShr(n, k), Bit(n, k) = 1,
                   sticky \/ \E i \in 1..(k - 1) : Bit(n, i) = 1)

(* A rounded significand that the carry made one bit too long *)
Normal(neg, m, e) ==
    IF BitLen(m) > SignificandBits
    THEN [neg |-> neg, m |-> BShr(m, 1), e |-> e + 1]
    ELSE [neg |-> neg, m |-> m, e |-> e]

(* The double nearest n * 2^e, for n with k bits too many *)
DoubleCut(neg, n, e, sticky, k) ==
    IF k <= 0
    THEN [neg |-> neg, m |-> BShl(n, -k), e |-> e + k]
    ELSE Normal(neg, RoundShift(n, k, sticky), e + k)

(* The double nearest n * 2^e *)
Double(neg, n, e, sticky) ==
    IF n = <<>>
    THEN [neg |-> FALSE, m |-> <<>>, e |-> 0]
    ELSE DoubleCut(neg, n, e, sticky, BitLen(n) - SignificandBits)

GuardBits == SignificandBits + 11

DoubleOfQuotient(neg, d) == Double(neg, d.q, -GuardBits, d.inexact)

(* The double nearest v / unit *)
DoubleOfRatio(v, unit) ==
    DoubleOfQuotient(v < 0, BDiv(BShl(BitsOf(Abs(v)), GuardBits), unit))

(* The double of a number: an int as it is, a float v / 10^ndigits *)
DoubleOf(x) ==
    DoubleOfRatio(x.val, IF x.type = "int" THEN 1 ELSE Pow10(ndigits))

DMul(x, y) == Double(x.neg # y.neg, BMul(x.m, y.m), x.e + y.e, FALSE)

(* The sign and size of (+-a) + (+-b) for signs that differ *)
SignedDifference(xneg, a, yneg, b, less) ==
    [neg |-> IF less THEN yneg ELSE xneg,
     n   |-> BSub(IF less THEN b ELSE a, IF less THEN a ELSE b)]

SignedSum(xneg, a, yneg, b) ==
    IF xneg = yneg
    THEN [neg |-> xneg, n |-> BAdd(a, b)]
    ELSE SignedDifference(xneg, a, yneg, b, BLess(a, b))

DoubleOfSigned(sum, e) == Double(sum.neg, sum.n, e, FALSE)

(* x + y with both significands brought to the exponent e *)
DAddAligned(x, y, e) ==
    DoubleOfSigned(SignedSum(x.neg, BShl(x.m, x.e - e),
                             y.neg, BShl(y.m, y.e - e)), e)

DAdd(x, y) ==
    IF x.m = <<>> THEN y
    ELSE IF y.m = <<>> THEN x
    ELSE DAddAligned(x, y, IF x.e < y.e THEN x.e ELSE y.e)

(* n * 2^e to the nearest integer, a tie to the even one *)
RoundScaled(n, e) ==
    ToInt(IF e >= 0 THEN BShl(n, e) ELSE RoundShift(n, -e, FALSE))

Signed(neg, v) == IF neg THEN -v ELSE v

(* round(x, ndigits) of a double, in hundredths: the multiple of 0.01       *)
(* nearest the binary value, an exact tie to the even one                   *)
DRound(x) == Signed(x.neg, RoundScaled(BMul(x.m, BitsOf(Pow10(ndigits))), x.e))

DMulOperands(ops) == DMul(ops[1], ops[2])

(* The double tool_scores[criterion] * weight of a term <<rating, weight>> *)
Term(t) ==
    DMulOperands([j \in 1..2 |-> DoubleOf(IF j = 1 THEN t[1] ELSE Float(t[2]))])

(* The double total_score after the terms rating * weight, added in order *)
RECURSIVE BinaryTotal(_, _)
BinaryTotal(terms, i) ==
    IF i = 0
    THEN [neg |-> FALSE, m |-> <<>>, e |-> 0]
    ELSE DAdd(BinaryTotal(terms, i - 1), Term(terms[i]))

----------------------------------------------------------------------------
(* total_score: the int 0 before the first term, then a float, held as its  *)
(* decimal value in units of 1/10000 and the terms that made it.            *)

FloatTotal(val, terms) == [type |-> "float", val |-> val, terms |-> terms]

(* Mutant: the total cut to 2 decimals instead of rounded *)
round_truncating(total) == total.val \div Pow10(ndigits)

(* round(total_score, ndigits) of a float total, giving hundredths.  The    *)
(* binary total is within rounding error of the decimal one, so off a       *)
(* decimal tie x.xx5 both round to the same multiple of 0.01; on a tie the  *)
(* binary total decides.                                                    *)
round(total) ==
    LET unit == Pow10(ndigits)
        q    == total.val \div unit
        r    == total.val % unit
    IN  IF 2 * r = unit
        THEN DRound(BinaryTotal(total.terms, Len(total.terms)))
        ELSE IF 2 * r > unit THEN q + 1 ELSE q

(* A finite number in hundredths *)
Hundredths(x) == IF x.type = "int" THEN x.val * Pow10(ndigits) ELSE x.val

(* total_score + rating * weight: a float from the first term on; NaN       *)
(* absorbs                                                                  *)
Accumulate(total, rating, weight) ==
    IF total.type = "nan" \/ rating.type = "nan"
    THEN NaN
    ELSE IF total.type = "int"
         THEN FloatTotal(total.val * Pow10(2 * ndigits) + Hundredths(rating) * weight,
                         <<<<rating, weight>>>>)
         ELSE FloatTotal(total.val + Hundredths(rating) * weight,
                         Append(total.terms, <<rating, weight>>))

(* return round(total_score, 2): the int 0 stays an int *)
Rounded(total) ==
    IF total.type = "nan" THEN NaN
    ELSE IF total.type = "int" THEN PyInt(total.val)
    ELSE Float(round(total))

(* Mutant: a rating that is not a number is skipped instead of raising *)
RECURSIVE ScoreLoop_skipping(_, _, _, _)
ScoreLoop_skipping(scores, weights, i, total) ==
    IF i > Len(weights)
    THEN Return(Rounded(total))
    ELSE IF weights[i].criterion \in DOMAIN scores
            /\ IsNumber(scores[weights[i].criterion])
         THEN ScoreLoop_skipping(scores, weights, i + 1,
                  Accumulate(total, scores[weights[i].criterion], weights[i].weight))
         ELSE ScoreLoop_skipping(scores, weights, i + 1, total)

(* The for loop over CRITERIA_WEIGHTS.items() from item i on, with          *)
(* total_score so far.  A str times a float weight raises TypeError.        *)
RECURSIVE ScoreLoop(_, _, _, _)
ScoreLoop(scores, weights, i, total) ==
    IF i > Len(weights)
    THEN Return(Rounded(total))
    ELSE LET criterion == weights[i].criterion
             weight    == weights[i].weight
         IN  IF criterion \in DOMAIN scores
             THEN IF IsNumber(scores[criterion])
                  THEN ScoreLoop(scores, weights, i + 1,
                                 Accumulate(total, scores[criterion], weight))
                  ELSE Raise("TypeError")
             ELSE ScoreLoop(scores, weights, i + 1, total)

(* total_score as the call leaves it: at the return, or where the           *)
(* multiplication raised                                                    *)
RECURSIVE TotalLoop(_, _, _, _)
TotalLoop(scores, weights, i, total) ==
    IF i > Len(weights)
    THEN total
    ELSE IF weights[i].criterion \in DOMAIN scores
         THEN IF IsNumber(scores[weights[i].criterion])
              THEN TotalLoop(scores, weights, i + 1,
                             Accumulate(total, scores[weights[i].criterion],
                                        weights[i].weight))
              ELSE total
         ELSE TotalLoop(scores, weights, i + 1, total)

(* Mutant: line 28 left out, total_score goes on from where the last call   *)
(* left it                                                                  *)
calculate_weighted_score_accumulating(scores) ==
    ScoreLoop(scores, CRITERIA_WEIGHTS, 1,
              IF total_score = Unbound THEN PyInt(0) ELSE total_score)

calculate_weighted_score(scores) ==
    ScoreLoop(scores, CRITERIA_WEIGHTS, 1, PyInt(0))

----------------------------------------------------------------------------
(* pandas DataFrame: a set of column names, the index labels of its rows    *)
(* in order, and for every row a dict from column name to cell.             *)

DataFrame(columns, index, data) ==
    [columns |-> columns, index |-> index, data |-> data]

EmptyFrame == DataFrame({}, <<>>, <<>>)

NRows(frame) == Len(frame.index)

Column(frame, c) == [i \in 1..NRows(frame) |-> frame.data[i][c]]

(* Mutant: no copy, df is the caller's object *)
DataFrame_copy_alias(heap, ref) == [heap |-> heap, ref |-> ref]

(* dataframe.copy(): a new object on the heap with the same content *)
DataFrame_copy(heap, ref) ==
    [heap |-> Append(heap, heap[ref]), ref |-> Len(heap) + 1]

(* row.to_dict() of row i *)
to_dict(frame, i) == frame.data[i]

(* df.apply(lambda row: calculate_weighted_score(row.to_dict()), axis=1):   *)
(* the outcome of the scorer on every row, in row order                     *)
apply(frame) ==
    [i \in 1..NRows(frame) |-> calculate_weighted_score(to_dict(frame, i))]

(* The dict of the last call df.apply made: of the first row that raised,  *)
(* else of the last row; of an empty row when the frame has none            *)
LastScored(frame, scores) ==
    IF NRows(frame) = 0
    THEN <<>>
    ELSE to_dict(frame,
                 CHOOSE k \in 1..NRows(frame) :
                     /\ scores[k].raised # "None" \/ k = NRows(frame)
                     /\ \A j \in 1..(k - 1) : scores[j].raised = "None")

(* df[c] = values *)
setitem(frame, c, values) ==
    DataFrame(frame.columns \cup {c}, frame.index,
              [i \in 1..NRows(frame) |-> (c :> values[i]) @@ frame.data[i]])

(* Mutant: method='min', one more than the number of rows that score higher *)
rank_min(values) ==
    [i \in DOMAIN values |->
       IF values[i].type = "nan"
       THEN NaN
       ELSE Float(Pow10(ndigits) *
              (1 + Cardinality({j \in DOMAIN values :
                                  /\ values[j].type # "nan"
                                  /\ Hundredths(values[j]) > Hundredths(values[i])})))]

(* Series.rank(ascending=False, method='dense'): the distinct values in     *)
(* descending order are numbered 1, 2, ...; NaN keeps NaN.  A float series. *)
rank(values) ==
    LET finite == {Hundredths(values[i]) :
                     i \in {j \in DOMAIN values : values[j].type # "nan"}}
    IN  [i \in DOMAIN values |->
           IF values[i].type = "nan"
           THEN NaN
           ELSE Float(Pow10(ndigits) *
                  Cardinality({v \in finite : v >= Hundredths(values[i])}))]

(* Series.astype(int): NaN cannot be cast and raises ValueError             *)
astype_int(values) ==
    IF \E i \in DOMAIN values : values[i].type = "nan"
    THEN Raise("ValueError")
    ELSE Return([i \in DOMAIN values |-> PyInt(values[i].val \div Pow10(ndigits))])

(* numpy's quicksort of an index array (aquicksort), which sort_values runs *)
(* on the rank column with its default kind='quicksort'.  v are the keys,   *)
(* tosort the row positions, pl and pr the ends of the part in work, stack  *)
(* the parts put off.  Its fall-back to heapsort after 2 * log2(n) nested   *)
(* partitions needs 34 rows or more.                                        *)

SMALL_QUICKSORT == 16

Swap(tosort, i, j) == [tosort EXCEPT ![i] = tosort[j], ![j] = tosort[i]]

(* tosort[i] and tosort[j] swapped if the key of the first is the less *)
SwapIfLess(v, tosort, i, j) ==
    IF v[tosort[i]] < v[tosort[j]] THEN Swap(tosort, i, j) ELSE tosort

(* The median of *pl, *pm and *pr brought to pm *)
MedianOfThree(v, tosort, pl, pm, pr) ==
    SwapIfLess(v, SwapIfLess(v, SwapIfLess(v, tosort, pm, pl), pr, pm), pm, pl)

(* The partition loop: pi runs up over the keys below the pivot vp, pj down *)
(* over the keys above it, and the two they stop at are swapped, equal keys *)
(* too, until they cross                                                    *)
RECURSIVE PartitionLoop(_, _, _, _, _)
PartitionStep(v, tosort, vp, pi, pj) ==
    IF pi >= pj
    THEN [tosort |-> tosort, pi |-> pi]
    ELSE PartitionLoop(v, Swap(tosort, pi, pj), vp, pi, pj)

PartitionLoop(v, tosort, vp, pi, pj) ==
    PartitionStep(v, tosort, vp,
        CHOOSE i \in (pi + 1)..Len(tosort) :
            /\ ~(v[tosort[i]] < vp)
            /\ \A k \in (pi + 1)..(i - 1) : v[tosort[k]] < vp,
        CHOOSE j \in 1..(pj - 1) :
            /\ ~(vp < v[tosort[j]])
            /\ \A k \in (j + 1)..(pj - 1) : vp < v[tosort[k]])

(* The pivot put back between the two parts, at pi *)
PivotPlaced(looped, pr) ==
    [tosort |-> Swap(looped.tosort, looped.pi, pr - 1), pi |-> looped.pi]

(* The pivot *pm moved to pr - 1 and the part between partitioned *)
PartitionAround(v, tosort, pl, pm, pr) ==
    PivotPlaced(PartitionLoop(v, Swap(tosort, pm, pr - 1), v[tosort[pm]],
                              pl, pr - 1), pr)

Partition(v, tosort, pl, pr) ==
    PartitionAround(v, MedianOfThree(v, tosort, pl, pl + (pr - pl) \div 2, pr),
                    pl, pl + (pr - pl) \div 2, pr)

(* tosort with *pi moved down to place j, the entries between moved up *)
InsertAt(tosort, pi, j) ==
    [k \in DOMAIN tosort |->
        IF k = j THEN tosort[pi]
        ELSE IF k > j /\ k <= pi THEN tosort[k - 1]
        ELSE tosort[k]]

(* One pass of the insertion sort: *pi goes down past the keys above it,    *)
(* and not past an equal one                                                *)
Insert(v, tosort, pl, pi) ==
    InsertAt(tosort, pi,
        CHOOSE j \in pl..pi :
            /\ \A k \in j..(pi - 1) : v[tosort[pi]] < v[tosort[k]]
            /\ j = pl \/ ~(v[tosort[pi]] < v[tosort[j - 1]]))

RECURSIVE InsertionSort(_, _, _, _, _)
InsertionSort(v, tosort, pl, pr, pi) ==
    IF pi > pr
    THEN tosort
    ELSE InsertionSort(v, Insert(v, tosort, pl, pi), pl, pr, pi + 1)

RECURSIVE aquicksort(_, _, _, _, _)
(* The larger part is put off, the smaller one is sorted next *)
Partitioned(v, part, pl, pr, stack) ==
    IF part.pi - pl < pr - part.pi
    THEN aquicksort(v, part.tosort, pl, part.pi - 1,
                    Append(stack, <<part.pi + 1, pr>>))
    ELSE aquicksort(v, part.tosort, part.pi + 1, pr,
                    Append(stack, <<pl, part.pi - 1>>))

(* The part is sorted: on with the part put off last, if any *)
Popped(v, tosort, stack) ==
    IF stack = <<>>
    THEN tosort
    ELSE aquicksort(v, tosort, stack[Len(stack)][1], stack[Len(stack)][2],
                    SubSeq(stack, 1, Len(stack) - 1))

aquicksort(v, tosort, pl, pr, stack) ==
    IF pr - pl > SMALL_QUICKSORT
    THEN Partitioned(v, Partition(v, tosort, pl, pr), pl, pr, stack)
    ELSE Popped(v, InsertionSort(v, tosort, pl, pr, pl + 1), stack)

(* keys.argsort(kind='quicksort'): the row positions in the order of their  *)
(* keys                                                                     *)
quicksort(keys) ==
    aquicksort(keys, [i \in DOMAIN keys |-> i], 1, Len(keys), <<>>)

(* Mutant: the index labels reordered, the rows left where they were *)
sort_values_misaligned(heap, ref, by, order) ==
    [heap |-> Append(heap,
                DataFrame(heap[ref].columns,
                          [k \in 1..NRows(heap[ref]) |-> heap[ref].index[order[k]]],
                          heap[ref].data)),
     ref  |-> Len(heap) + 1]

(* df.sort_values(by): a new object on the heap, the rows of df taken in    *)
(* the order the argsort of column by gave                                  *)
sort_values(heap, ref, by, order) ==
    LET frame == heap[ref]
    IN  [heap |-> Append(heap,
                    DataFrame(frame.columns,
                              [k \in 1..NRows(frame) |-> frame.index[order[k]]],
                              [k \in 1..NRows(frame) |-> frame.data[order[k]]])),
         ref  |-> Len(heap) + 1]

----------------------------------------------------------------------------
(* evaluate_tools.  The call runs on a heap holding the caller's object at  *)
(* reference 1; it gives the caller's object as the call leaves it, the     *)
(* outcome, and the reference of the object returned (0 when it raises).    *)
(* order is the argsort of the rank column.                                 *)

(* lines 43-46: the business_score column set on the copy c, unless a row   *)
(* made the scorer raise                                                    *)
WithScores(c, scores) ==
    IF \E i \in DOMAIN scores : scores[i].raised # "None"
    THEN [heap |-> c.heap, df |-> c.ref, raised |-> "TypeError"]
    ELSE [heap |-> [c.heap EXCEPT ![c.ref] =
                      setitem(@, "business_score",
                              [i \in DOMAIN scores |-> scores[i].value])],
          df |-> c.ref, raised |-> "None"]

ScoredCopy(c) == WithScores(c, apply(c.heap[c.ref]))

(* lines 40-46: the copy, and the scores of its rows *)
Scored(frame) == ScoredCopy(DataFrame_copy(<<frame>>, 1))

(* line 49: the rank column set on the scored copy s, unless the cast raised *)
WithRanks(s, ranks) ==
    IF ranks.raised # "None"
    THEN [s EXCEPT !.raised = ranks.raised]
    ELSE [s EXCEPT !.heap[s.df] = setitem(@, "rank", ranks.value)]

RankedScored(s) ==
    IF s.raised # "None"
    THEN s
    ELSE WithRanks(s, astype_int(rank(Column(s.heap[s.df], "business_score"))))

(* lines 40-49 *)
Ranked(frame) == RankedScored(Scored(frame))

SortKeysOf(r) ==
    IF r.raised # "None"
    THEN <<>>
    ELSE [i \in 1..NRows(r.heap[r.df]) |-> r.heap[r.df].data[i]["rank"].val]

(* The keys line 51 sorts by; none when the call raises before *)
SortKeys(frame) == SortKeysOf(Ranked(frame))

(* What the call gives once line 51 has made the sorted object *)
Returning(sorted) ==
    [dataframe |-> sorted.heap[1],
     outcome   |-> Return(sorted.heap[sorted.ref]),
     ref       |-> sorted.ref]

(* line 51 on the ranked copy r, or the exception raised before it *)
SortedRanked(r, order) ==
    IF r.raised # "None"
    THEN [dataframe |-> r.heap[1], outcome |-> Raise(r.raised), ref |-> 0]
    ELSE Returning(sort_values(r.heap, r.df, "rank", order))

(* Mutant: an empty input is refused *)
evaluate_tools_rejecting_empty(frame, order) ==
    IF NRows(frame) = 0
    THEN [dataframe |-> frame, outcome |-> Raise("EmptyInputError"), ref |-> 0]
    ELSE SortedRanked(Ranked(frame), order)

evaluate_tools(frame, order) == SortedRanked(Ranked(frame), order)

----------------------------------------------------------------------------
(* Direct calls of the scorer *)

Criteria == Keys(ReferenceWeights)

RatingCells == {PyInt(1), Float(252), PyInt(5), NaN, Str("n/a")}

ExtraItems == {<<>>, [tool_name |-> Str("Flexport"), z |-> PyInt(100)]}

Dicts(keys, cells) == UNION {[ks -> cells] : ks \in SUBSET keys}

(* Ratings whose weighted sums fall on decimal ties: 0.1 * 0.15 = 0.015,    *)
(* 0.5 * 0.15 = 0.075, 2.5 * 0.15 = 0.375                                   *)
TieCells == {Float(10), Float(50), Float(250)}

TieCriteria == {"ease_of_use", "cost_efficiency", "scalability"}

ToolScores ==
    {d @@ e : d \in Dicts(Criteria, RatingCells) \cup Dicts(TieCriteria, TieCells),
              e \in ExtraItems}

InitScorer ==
    /\ CRITERIA_WEIGHTS = ReferenceWeights
    /\ tool_scores \in ToolScores
    /\ score = NotCalled
    /\ dataframe = EmptyFrame
    /\ history = <<>>
    /\ total_score = Unbound

CallScorer ==
    /\ score = NotCalled
    /\ score' = calculate_weighted_score(tool_scores)
    /\ total_score' = TotalLoop(tool_scores, CRITERIA_WEIGHTS, 1, PyInt(0))
    /\ UNCHANGED <<CRITERIA_WEIGHTS, tool_scores, dataframe, history>>

----------------------------------------------------------------------------
(* The caller: it builds a DataFrame from a list of records, one dict per   *)
(* tool, and evaluates it, or its reversal dataframe.iloc[::-1].            *)

MaxRows == 3
MaxCalls == 3

ToolName(i) == Str("tool_" \o ToString(i))

Records ==
    {d @@ e : d \in Dicts({"ease_of_use"}, {Float(252), PyInt(3), PyInt(5), Str("n/a")}),
              e \in Dicts({"scalability"}, {PyInt(4)})}

(* pd.DataFrame(records): the columns are the union of the keys, a key a    *)
(* record lacks is NaN in its row, the index is 0, 1, ...                   *)
from_records(records) ==
    LET columns == UNION {DOMAIN records[i] : i \in DOMAIN records}
    IN  DataFrame(columns,
                  [i \in DOMAIN records |-> i - 1],
                  [i \in DOMAIN records |->
                     [c \in columns |-> IF c \in DOMAIN records[i]
                                        THEN records[i][c] ELSE NaN]])

LongRows == 20

(* Lists long enough for quicksort to partition: the first k records rate   *)
(* ease_of_use 5, the others 3                                              *)
LongLists ==
    {[i \in 1..LongRows |->
         [ease_of_use |-> IF i <= k THEN PyInt(5) ELSE PyInt(3)]] :
        k \in 0..LongRows}

DataFrames ==
    {from_records([i \in DOMAIN rs |-> [tool_name |-> ToolName(i)] @@ rs[i]]) :
        rs \in UNION {[1..n -> Records] : n \in 0..MaxRows} \cup LongLists}

(* dataframe.iloc[::-1] *)
reversed(frame) ==
    LET n == NRows(frame)
    IN  DataFrame(frame.columns,
                  [i \in 1..n |-> frame.index[n + 1 - i]],
                  [i \in 1..n |-> frame.data[n + 1 - i]])

Init ==
    /\ CRITERIA_WEIGHTS = ReferenceWeights
    /\ tool_scores = <<>>
    /\ score = NotCalled
    /\ dataframe \in DataFrames
    /\ history = <<>>
    /\ total_score = Unbound

(* The call has given out and left the scorer's local at total: the caller  *)
(* keeps the result                                                         *)
Called(argument, own, out, total) ==
    /\ history' = Append(history, [argument    |-> argument,
                                   after       |-> out.dataframe,
                                   outcome     |-> out.outcome,
                                   ref         |-> out.ref,
                                   total_score |-> total])
    /\ dataframe' = IF own THEN out.dataframe ELSE dataframe
    /\ total_score' = total

(* result = evaluate_tools(argument); own is TRUE when the argument is the  *)
(* caller's dataframe object itself                                         *)
Call(argument, own) ==
    /\ Len(history) < MaxCalls
    /\ Called(argument, own,
              evaluate_tools(argument,
                             quicksort(SortKeys(argument))),
              TotalLoop(LastScored(argument, apply(argument)),
                        CRITERIA_WEIGHTS, 1, PyInt(0)))
    /\ UNCHANGED <<CRITERIA_WEIGHTS, tool_scores, score>>

CallEvaluate == Call(dataframe, TRUE)

CallEvaluateReversed == Call(reversed(dataframe), FALSE)

Next == CallEvaluate \/ CallEvaluateReversed

Spec == Init /\ [][Next]_vars

(* The caller of the scorer also evaluates pd.DataFrame([tool_scores]) *)
CallEvaluateRecord ==
    /\ history = <<>>
    /\ Call(from_records(<<tool_scores>>), FALSE)

NextScorer == CallScorer \/ CallEvaluateRecord

SpecScorer == InitScorer /\ [][NextScorer]_vars

----------------------------------------------------------------------------
(* Vocabulary of the properties *)

IsFinite(x) == x.type \in {"int", "float"}

(* The criteria a dict rates: its keys that the weight table has too *)
Shared(d) == DOMAIN d \cap Keys(CRITERIA_WEIGHTS)

(* The exact sum of rating * weight over the criteria cs, in 1/10000 *)
RECURSIVE SumOver(_, _)
SumOver(d, cs) ==
    IF cs = {}
    THEN 0
    ELSE LET c == CHOOSE x \in cs : TRUE
         IN  Hundredths(d[c]) * WeightOf(CRITERIA_WEIGHTS, c)
               + SumOver(d, cs \ {c})

(* v, in hundredths, is a multiple of 0.01 nearest to the total; a total on *)
(* a tie x.xx5 has two *)
NearestHundredth(v, total) ==
    LET diff == v * Pow10(ndigits) - total
    IN  2 * diff <= Pow10(ndigits) /\ 2 * diff >= -Pow10(ndigits)

(* cell is the weighted sum of the finite ratings of d, to 2 decimals *)
IsScoreOf(cell, d) ==
    /\ IsFinite(cell)
    /\ NearestHundredth(Hundredths(cell),
                        SumOver(d, {c \in Shared(d) : IsFinite(d[c])}))

NonNumericRating(d) == \E c \in Shared(d) : ~IsNumber(d[c])

Calls == {history[i] : i \in DOMAIN history}

Returned == {h \in Calls : h.outcome.raised = "None"}

ScoreAt(frame, k) == Hundredths(frame.data[k]["business_score"])

RankAt(frame, k) == frame.data[k]["rank"].val

(* The position in frame of the row with this index label *)
PositionOf(frame, label) ==
    CHOOSE i \in 1..NRows(frame) : frame.index[i] = label

----------------------------------------------------------------------------
(* C1: the scorer returns the sum of rating * weight over exactly the       *)
(* criteria that are in both the ratings and the weight table, rounded to   *)
(* 2 decimal places; keys the weight table lacks neither change the result  *)
(* nor raise.                                                               *)
C1_WeightedSumOverSharedCriteria ==
    (score # NotCalled /\ \A c \in Shared(tool_scores) : IsFinite(tool_scores[c]))
        => /\ score.raised = "None"
           /\ IsFinite(score.value)
           /\ NearestHundredth(Hundredths(score.value),
                               SumOver(tool_scores, Shared(tool_scores)))

(* A call with extra keys, some criteria rated and some not, and a sum that *)
(* rounding changes                                                         *)
C1_Witness ==
    /\ score # NotCalled
    /\ score.raised = "None"
    /\ {"z", "tool_name"} \subseteq DOMAIN tool_scores
    /\ Shared(tool_scores) # {}
    /\ Shared(tool_scores) # Keys(CRITERIA_WEIGHTS)
    /\ \A c \in Shared(tool_scores) : IsFinite(tool_scores[c])
    /\ SumOver(tool_scores, Shared(tool_scores)) % Pow10(ndigits) > 50

(* C9, as claimed: with the reference weights, every mapping whose ratings  *)
(* are in 1..5 scores between 1 and 5.                                      *)
C9_EveryMappingOnScale ==
    ( /\ score # NotCalled
      /\ Shared(tool_scores) # {}
      /\ \A c \in Shared(tool_scores) :
            /\ IsFinite(tool_scores[c])
            /\ Hundredths(tool_scores[c]) \in 100..500 )
        => /\ score.raised = "None"
           /\ IsFinite(score.value)
           /\ Hundredths(score.value) \in 100..500

(* C9, amended: with the reference weights, every mapping that rates all    *)
(* six criteria with ratings in 1..5 scores between 1 and 5.                *)
C9_CompleteMappingOnScale ==
    ( /\ score # NotCalled
      /\ Shared(tool_scores) = Keys(CRITERIA_WEIGHTS)
      /\ \A c \in Shared(tool_scores) :
            /\ IsFinite(tool_scores[c])
            /\ Hundredths(tool_scores[c]) \in 100..500 )
        => /\ score.raised = "None"
           /\ IsFinite(score.value)
           /\ Hundredths(score.value) \in 100..500

(* All six criteria rated in 1..5, not all alike, and scored *)
C9_Witness ==
    /\ score # NotCalled
    /\ score.raised = "None"
    /\ Shared(tool_scores) = Keys(CRITERIA_WEIGHTS)
    /\ \A c \in Shared(tool_scores) :
          /\ IsFinite(tool_scores[c])
          /\ Hundredths(tool_scores[c]) \in 100..500
    /\ \E c \in Shared(tool_scores) : tool_scores[c] = PyInt(1)
    /\ \E c \in Shared(tool_scores) : tool_scores[c] = PyInt(5)
    /\ Hundredths(score.value) \in 101..499

(* C5, as claimed: the scorer fails exactly when a rating of a criterion of *)
(* the weight table is not a number, with InvalidRatingError, which reaches *)
(* the caller of evaluate_tools too.                                        *)
C5_InvalidRatingError ==
    /\ score # NotCalled =>
          /\ score.raised \in {"None", "InvalidRatingError"}
          /\ score.raised = "InvalidRatingError" <=> NonNumericRating(tool_scores)
    /\ \A h \in Calls :
          h.outcome.raised = "InvalidRatingError"
             <=> \E i \in 1..NRows(h.argument) :
                    NonNumericRating(h.argument.data[i])

(* C5, amended: the scorer fails exactly when a rating of a criterion of    *)
(* the weight table is not a number, with the TypeError of the              *)
(* multiplication, which reaches the caller of evaluate_tools unrecovered;  *)
(* a non-number under a key the weight table lacks never fails.             *)
C5_TypeErrorIffNonNumericRating ==
    /\ score # NotCalled =>
          /\ score.raised \in {"None", "TypeError"}
          /\ score.raised = "TypeError" <=> NonNumericRating(tool_scores)
    /\ \A h \in Calls :
          h.outcome.raised = "TypeError"
             <=> \E i \in 1..NRows(h.argument) :
                    NonNumericRating(h.argument.data[i])

(* A record with a str rating and a str tool_name, failed both ways *)
C5_Witness ==
    /\ score = Raise("TypeError")
    /\ "tool_name" \in DOMAIN tool_scores
    /\ \E h \in Calls : h.outcome = Raise("TypeError")
    /\ \E c \in Shared(tool_scores) : IsFinite(tool_scores[c])

(* C2: for a non-empty input the rank column is a dense ranking of          *)
(* business_score, descending: the highest score has rank 1, equal rank     *)
(* means equal score, a higher score has a smaller rank, and the ranks used *)
(* are exactly 1..k for k distinct scores.                                  *)
C2_DenseRanking ==
    \A h \in Returned :
        LET out == h.outcome.value
            N   == 1..NRows(out)
        IN  NRows(h.argument) > 0 =>
              /\ \A k \in N : (\A l \in N : ScoreAt(out, l) <= ScoreAt(out, k))
                                 => RankAt(out, k) = 1
              /\ \A k, l \in N : RankAt(out, k) = RankAt(out, l)
                                    <=> ScoreAt(out, k) = ScoreAt(out, l)
              /\ \A k, l \in N : ScoreAt(out, k) > ScoreAt(out, l)
                                    => RankAt(out, k) < RankAt(out, l)
              /\ {RankAt(out, k) : k \in N}
                    = 1..Cardinality({ScoreAt(out, k) : k \in N})

(* A result where two records tie above a third *)
C2_Witness ==
    \E h \in Returned :
        LET out == h.outcome.value
        IN  \E k, l, m \in 1..NRows(out) :
               /\ k # l
               /\ ScoreAt(out, k) = ScoreAt(out, l)
               /\ ScoreAt(out, k) > ScoreAt(out, m)

(* C3: the result is ordered by rank ascending, and records of equal rank   *)
(* keep the relative order they had in the input.                           *)
C3_StableRankOrder ==
    \A h \in Returned :
        LET out == h.outcome.value
        IN  \A k, l \in 1..NRows(out) :
               k < l =>
                 /\ RankAt(out, k) <= RankAt(out, l)
                 /\ RankAt(out, k) = RankAt(out, l)
                       => PositionOf(h.argument, out.index[k])
                            < PositionOf(h.argument, out.index[l])

(* C4: a record that lacks ratings for criteria of the weight table is      *)
(* still scored, the missing criteria counting zero, by the scorer called   *)
(* directly and through evaluate_tools.  A rating a record lacks is a key   *)
(* its dict lacks, or NaN in its row of the frame.                          *)
C4_MissingCriterionTolerated ==
    /\ (score # NotCalled /\ \A c \in Shared(tool_scores) : IsFinite(tool_scores[c]))
          => /\ score.raised = "None"
             /\ IsScoreOf(score.value, tool_scores)
    /\ \A h \in Calls :
          (\A i \in 1..NRows(h.argument) : ~NonNumericRating(h.argument.data[i]))
             => /\ h.outcome.raised = "None"
                /\ \A k \in 1..NRows(h.outcome.value) :
                      IsScoreOf(h.outcome.value.data[k]["business_score"],
                                h.argument.data[
                                   PositionOf(h.argument, h.outcome.value.index[k])])

(* C6: evaluate_tools of an empty collection returns an empty collection    *)
(* and raises nothing.                                                      *)
C6_EmptyInput ==
    \A h \in Calls :
        NRows(h.argument) = 0
           => /\ h.outcome.raised = "None"
              /\ NRows(h.outcome.value) = 0

(* An empty frame was evaluated *)
C6_Witness ==
    \E h \in Calls : NRows(h.argument) = 0 /\ h.outcome.raised = "None"

C8_InputsUnchanged ==
    /\ CRITERIA_WEIGHTS = ReferenceWeights
    /\ {"business_score", "rank"} \cap dataframe.columns = {}
    /\ \A h \in Calls :
          /\ h.after = h.argument
          /\ h.outcome.raised = "None" => h.ref # 1 /\ h.outcome.value # h.after

(* The caller's own frame, of two rows or more, was evaluated and ranked *)
C8_Witness ==
    \E h \in Returned :
        /\ h.argument = dataframe
        /\ NRows(dataframe) >= 2
        /\ "rank" \in h.outcome.value.columns

(* C10: the result has exactly one record for every input record; it        *)
(* carries the input record's name and ratings unchanged, the score of the  *)
(* scorer on that record, and a rank that is a positive integer.            *)
C10_OneScoredRecordPerInput ==
    \A h \in Returned :
        LET out == h.outcome.value
            arg == h.argument
        IN  /\ NRows(out) = NRows(arg)
            /\ out.columns = arg.columns \cup {"business_score", "rank"}
            /\ \A i \in 1..NRows(arg) :
                  Cardinality({k \in 1..NRows(out) : out.index[k] = arg.index[i]}) = 1
            /\ \A k \in 1..NRows(out) :
                  LET i == PositionOf(arg, out.index[k])
                  IN  /\ \A c \in arg.columns : out.data[k][c] = arg.data[i][c]
                      /\ IsScoreOf(out.data[k]["business_score"], arg.data[i])
                      /\ out.data[k]["rank"].type = "int"
                      /\ out.data[k]["rank"].val >= 1

(* A result of three records that come out in another order than they went *)
(* in                                                                       *)
C10_Witness ==
    \E h \in Returned :
        /\ NRows(h.argument) = 3
        /\ h.outcome.value.index # h.argument.index
        /\ \E k, l \in 1..3 : RankAt(h.outcome.value, k) # RankAt(h.outcome.value, l)

====
